---- MODULE Spec2Model ----
(***************************************************************************)
(* HubDoc Preview (dev082/DocHub---Viewer): the document registry of       *)
(* App.tsx (React state `files`), its localStorage session, the ingestion  *)
(* and restore codec, the summarization lifecycle and the preview          *)
(* dispatch of PreviewCard.                                                *)
(*                                                                         *)
(* JavaScript strings are sequences of one-character strings, file bytes   *)
(* are sequences of numbers 0..255, so that includes/endsWith/split/atob   *)
(* and the data-URL encoding are computed, not assumed.                    *)
(***************************************************************************)
EXTENDS Integers, Sequences, FiniteSets, TLC

(* ------------------------------ bounds -------------------------------- *)

\* User operations per run: every file handed to handleFiles, every click
\* on "Gerar IA" and every page reload counts one.
MaxOps == 3

\* Files handed to handleFiles in one drop or selection.
MaxBatch == 2

\* localStorage quota for the origin, in UTF-16 code units (key + value);
\* browsers use about 5M, the model a value that two or three records reach.
Quota == 300

(* --------------------------- string tables ---------------------------- *)

\* The characters of every string literal and sample string of the model.
Chars(s) ==
  CASE s = "report.md" -> <<"r", "e", "p", "o", "r", "t", ".", "m", "d">>
      [] s = "empty.pdf" -> <<"e", "m", "p", "t", "y", ".", "p", "d", "f">>
      [] s = "slide.pptx" -> <<"s", "l", "i", "d", "e", ".", "p", "p", "t", "x">>
      [] s = "text/markdown" -> <<"t", "e", "x", "t", "/", "m", "a", "r", "k", "d", "o", "w", "n">>
      [] s = "application/pdf" -> <<"a", "p", "p", "l", "i", "c", "a", "t", "i", "o", "n", "/", "p", "d", "f">>
      [] s = "image/png" -> <<"i", "m", "a", "g", "e", "/", "p", "n", "g">>
      [] s = "text/xml" -> <<"t", "e", "x", "t", "/", "x", "m", "l">>
      [] s = "application/vnd.openxmlformats-officedocument.presentationml.presentation" -> <<"a", "p", "p", "l", "i", "c", "a", "t", "i", "o", "n", "/", "v", "n", "d", ".", "o", "p", "e", "n", "x", "m", "l", "f", "o", "r", "m", "a", "t", "s", "-", "o", "f", "f", "i", "c", "e", "d", "o", "c", "u", "m", "e", "n", "t", ".", "p", "r", "e", "s", "e", "n", "t", "a", "t", "i", "o", "n", "m", "l", ".", "p", "r", "e", "s", "e", "n", "t", "a", "t", "i", "o", "n">>
      [] s = "text/plain" -> <<"t", "e", "x", "t", "/", "p", "l", "a", "i", "n">>
      [] s = "application/octet-stream" -> <<"a", "p", "p", "l", "i", "c", "a", "t", "i", "o", "n", "/", "o", "c", "t", "e", "t", "-", "s", "t", "r", "e", "a", "m">>
      [] s = "" -> <<>>
      [] s = "hubdoc_session_files" -> <<"h", "u", "b", "d", "o", "c", "_", "s", "e", "s", "s", "i", "o", "n", "_", "f", "i", "l", "e", "s">>
      [] s = "k3j9x2m1q" -> <<"k", "3", "j", "9", "x", "2", "m", "1", "q">>
      [] s = "a0b1c2d3e" -> <<"a", "0", "b", "1", "c", "2", "d", "3", "e">>
      [] s = ".md" -> <<".", "m", "d">>
      [] s = ".txt" -> <<".", "t", "x", "t">>
      [] s = ".xml" -> <<".", "x", "m", "l">>
      [] s = ".pptx" -> <<".", "p", "p", "t", "x">>
      [] s = ".pdf" -> <<".", "p", "d", "f">>
      [] s = ".png" -> <<".", "p", "n", "g">>
      [] s = "text" -> <<"t", "e", "x", "t">>
      [] s = "markdown" -> <<"m", "a", "r", "k", "d", "o", "w", "n">>
      [] s = "pdf" -> <<"p", "d", "f">>
      [] s = "xml" -> <<"x", "m", "l">>
      [] s = "presentation" -> <<"p", "r", "e", "s", "e", "n", "t", "a", "t", "i", "o", "n">>
      [] s = "data:" -> <<"d", "a", "t", "a", ":">>
      [] s = ";base64," -> <<";", "b", "a", "s", "e", "6", "4", ",">>
      [] s = "Short summary." -> <<"S", "h", "o", "r", "t", " ", "s", "u", "m", "m", "a", "r", "y", ".">>
      [] s = "Nao foi possivel gerar um resumo." -> <<"N", "a", "o", " ", "f", "o", "i", " ", "p", "o", "s", "s", "i", "v", "e", "l", " ", "g", "e", "r", "a", "r", " ", "u", "m", " ", "r", "e", "s", "u", "m", "o", ".">>
      [] s = "Erro ao processar o resumo com a IA." -> <<"E", "r", "r", "o", " ", "a", "o", " ", "p", "r", "o", "c", "e", "s", "s", "a", "r", " ", "o", " ", "r", "e", "s", "u", "m", "o", " ", "c", "o", "m", " ", "a", " ", "I", "A", ".">>

\* Printable ASCII, code 32 (space) .. 126 (~): Printable[c - 31] is chr(c).
Printable == <<" ", "!", "\"", "#", "$", "%", "&", "'", "(", ")", "*", "+", ",", "-", ".", "/", "0", "1", "2", "3", "4", "5", "6", "7", "8", "9", ":", ";", "<", "=", ">", "?", "@", "A", "B", "C", "D", "E", "F", "G", "H", "I", "J", "K", "L", "M", "N", "O", "P", "Q", "R", "S", "T", "U", "V", "W", "X", "Y", "Z", "[", "\\", "]", "^", "_", "U+0060", "a", "b", "c", "d", "e", "f", "g", "h", "i", "j", "k", "l", "m", "n", "o", "p", "q", "r", "s", "t", "u", "v", "w", "x", "y", "z", "{", "|", "}", "~">>

\* RFC 4648 alphabet: Base64Alphabet[v + 1] encodes the sextet v.
Base64Alphabet == <<"A", "B", "C", "D", "E", "F", "G", "H", "I", "J", "K", "L", "M", "N", "O", "P", "Q", "R", "S", "T", "U", "V", "W", "X", "Y", "Z", "a", "b", "c", "d", "e", "f", "g", "h", "i", "j", "k", "l", "m", "n", "o", "p", "q", "r", "s", "t", "u", "v", "w", "x", "y", "z", "0", "1", "2", "3", "4", "5", "6", "7", "8", "9", "+", "/">>

ReplacementChar == "U+FFFD"

(* --------------------------- string helpers --------------------------- *)

\* String.prototype.includes
Includes(s, sub) ==
  \E i \in 0..(Len(s) - Len(sub)) : SubSeq(s, i + 1, i + Len(sub)) = sub

\* String.prototype.endsWith
EndsWith(s, suffix) ==
  /\ Len(suffix) <= Len(s)
  /\ SubSeq(s, Len(s) - Len(suffix) + 1, Len(s)) = suffix

\* s.split(',')[1]: the text between the first comma and the second (or the
\* end); [defined |-> FALSE] when s holds no comma
SplitComma1(s) ==
  LET commas == {i \in 1..Len(s) : s[i] = ","}
      first  == CHOOSE i \in commas : \A j \in commas : i <= j
      later  == commas \ {first}
      second == CHOOSE i \in later : \A j \in later : i <= j
  IN  IF commas = {} THEN [defined |-> FALSE, str |-> <<>>]
      ELSE [defined |-> TRUE,
            str |-> SubSeq(s, first + 1, IF later = {} THEN Len(s) ELSE second - 1)]

\* Index of the character c in the table t, 0 when absent
IndexOf(t, c) ==
  IF \E i \in 1..Len(t) : t[i] = c THEN CHOOSE i \in 1..Len(t) : t[i] = c ELSE 0

\* Blob.text() / File.text(): UTF-8 decode. Printable ASCII maps to its
\* character; every other byte of the samples is a lone byte >= 128, which
\* decodes to U+FFFD.
Utf8Decode(bytes) ==
  [i \in 1..Len(bytes) |->
     IF bytes[i] >= 32 /\ bytes[i] <= 126 THEN Printable[bytes[i] - 31]
     ELSE ReplacementChar]

\* new Blob([string]): UTF-8 encode; U+FFFD takes three bytes, the other
\* characters of the model one
Utf8Encode(s) ==
  LET width(i)  == IF s[i] = ReplacementChar THEN 3 ELSE 1
      offset(i) == (i - 1) + 2 * Cardinality({j \in 1..(i - 1) : s[j] = ReplacementChar})
      total     == Len(s) + 2 * Cardinality({j \in 1..Len(s) : s[j] = ReplacementChar})
  IN  [k \in 1..total |->
         LET i == CHOOSE i \in 1..Len(s) : offset(i) < k /\ k <= offset(i) + width(i)
         IN  IF s[i] = ReplacementChar THEN <<239, 191, 189>>[k - offset(i)]
             ELSE IndexOf(Printable, s[i]) + 31]

\* The base64 text FileReader.readAsDataURL puts after the comma
RECURSIVE Base64Encode(_)
Base64Encode(b) ==
  IF b = <<>> THEN <<>>
  ELSE
    LET n  == Len(b)
        b2 == IF n >= 2 THEN b[2] ELSE 0
        b3 == IF n >= 3 THEN b[3] ELSE 0
        v  == b[1] * 65536 + b2 * 256 + b3
    IN  << Base64Alphabet[(v \div 262144) + 1],
           Base64Alphabet[((v \div 4096) % 64) + 1],
           IF n >= 2 THEN Base64Alphabet[((v \div 64) % 64) + 1] ELSE "=",
           IF n >= 3 THEN Base64Alphabet[(v % 64) + 1] ELSE "=" >>
        \o (IF n > 3 THEN Base64Encode(SubSeq(b, 4, n)) ELSE <<>>)

\* The sextets of a padding-free base64 text, as bytes; leftover bits dropped
RECURSIVE SextetsToBytes(_)
SextetsToBytes(v) ==
  IF Len(v) < 2 THEN <<>>
  ELSE IF Len(v) = 2 THEN << (v[1] * 4 + v[2] \div 16) % 256 >>
  ELSE IF Len(v) = 3
    THEN << (v[1] * 4 + v[2] \div 16) % 256, ((v[2] % 16) * 16 + v[3] \div 4) % 256 >>
  ELSE << (v[1] * 4 + v[2] \div 16) % 256,
          ((v[2] % 16) * 16 + v[3] \div 4) % 256,
          ((v[3] % 4) * 64 + v[4]) % 256 >>
       \o SextetsToBytes(SubSeq(v, 5, Len(v)))

\* window.atob (forgiving-base64 decode): [ok |-> FALSE] is the
\* InvalidCharacterError it throws
atob(s) ==
  LET noSpace == SelectSeq(s, LAMBDA c : c # " ")
      n0 == Len(noSpace)
      unpadded ==
        IF n0 % 4 = 0 /\ n0 >= 2 /\ noSpace[n0] = "=" /\ noSpace[n0 - 1] = "="
          THEN SubSeq(noSpace, 1, n0 - 2)
        ELSE IF n0 % 4 = 0 /\ n0 >= 1 /\ noSpace[n0] = "="
          THEN SubSeq(noSpace, 1, n0 - 1)
        ELSE noSpace
      valid == /\ Len(unpadded) % 4 # 1
               /\ \A i \in 1..Len(unpadded) : IndexOf(Base64Alphabet, unpadded[i]) # 0
  IN  IF valid
        THEN [ok |-> TRUE,
              bytes |-> SextetsToBytes([i \in 1..Len(unpadded) |->
                                          IndexOf(Base64Alphabet, unpadded[i]) - 1])]
        ELSE [ok |-> FALSE, bytes |-> <<>>]

(* ----------------------------- data model ----------------------------- *)

\* localStorage key of the session
STORAGE_KEY == "hubdoc_session_files"

\* Outcomes of Math.random().toString(36).substr(2, 9): nothing in the code
\* keeps two draws apart, so the model draws from a set two draws can share.
IDS == {"k3j9x2m1q", "a0b1c2d3e"}

\* The code never looks inside an id, so the two samples are interchangeable
\* and the first draw of a run is taken to be this one.
FirstId == "k3j9x2m1q"

\* The files a user drops or selects in the runs of Spec: name, declared
\* type, bytes. A Markdown text, a PDF of no bytes and a presentation.
FileInputs ==
  { [name |-> Chars("report.md"), type |-> "text/markdown", bytes |-> <<35, 32, 84>>],
    [name |-> Chars("empty.pdf"), type |-> "application/pdf", bytes |-> <<>>],
    [name |-> Chars("slide.pptx"),
     type |-> "application/vnd.openxmlformats-officedocument.presentationml.presentation",
     bytes |-> <<80>>] }

\* The files of the runs of SpecCodec: every extension with every declared
\* type and every sample content; the stem of the name tells type and
\* content apart, so that a name names one file.
CodecExtensions == {".md", ".txt", ".xml", ".pdf", ".pptx", ".png"}

CodecTypes ==
  << "", "text/plain", "text/markdown", "text/xml", "application/pdf", "image/png",
     "application/vnd.openxmlformats-officedocument.presentationml.presentation" >>

CodecBytes == << <<>>, <<65>>, <<35, 32, 84>>, <<65, 44, 66, 67>>, <<137>> >>

Digit(n) == Printable[n + 17]

CodecInputs ==
  { [name |-> <<"f", Digit(t), Digit(b)>> \o Chars(e),
     type |-> CodecTypes[t], bytes |-> CodecBytes[b]] :
      t \in 1..Len(CodecTypes), b \in 1..Len(CodecBytes), e \in CodecExtensions }

\* The file a record was ingested from (a name names one file)
OriginalOf(name) == CHOOSE f \in FileInputs \cup CodecInputs : f.name = name

\* An optional field that is not set (JSON.stringify drops it, JSON.parse
\* leaves it unset again)
Undefined == "undefined"

\* The url of a record that has none: a parsed record that was not given a
\* new object URL
NoUrl == 0

\* What the remote model can do with a request
RemoteOutcomes == {"text", "empty", "throws"}

(* ------------------------------- state -------------------------------- *)

VARIABLES
  phase,        \* "boot": page loaded, effects not run yet; "running"
  files,        \* useState<PreviewFile[]>
  isRestoring,  \* useState(true)
  storage,      \* localStorage[STORAGE_KEY]: [kind, recs]
  blobs,        \* the page's blob URL store: [url, bytes] of every live object URL
  nextUrl,      \* the next object URL URL.createObjectURL returns
  batches,      \* handleFiles calls awaiting Promise.all
  calls,        \* summarizeDocument calls awaiting the remote model
  ops,          \* user operations so far: files ingested, summaries asked, reloads
  console,      \* what the last step logged
  last          \* the last step taken: [op, arg]

vars == << phase, files, isRestoring, storage, blobs, nextUrl, batches, calls,
           ops, console, last >>

(* ------------------------------ the codec ----------------------------- *)

\* handleFiles: the test that stores a file as text
StoredAsText(file) ==
  \/ EndsWith(file.name, Chars(".md"))
  \/ EndsWith(file.name, Chars(".txt"))
  \/ EndsWith(file.name, Chars(".xml"))
  \/ Includes(Chars(file.type), Chars("text"))
  \/ Includes(Chars(file.type), Chars("markdown"))

\* fileToBase64: FileReader.readAsDataURL
fileToBase64(file) ==
  Chars("data:")
  \o Chars(IF file.type = "" THEN "application/octet-stream" ELSE file.type)
  \o Chars(";base64,") \o Base64Encode(file.bytes)

\* handleFiles: the record made of one file
ProcessFile(file, id, url) ==
  [ id      |-> id,
    name    |-> file.name,
    type    |-> IF file.type = "" THEN "application/octet-stream" ELSE file.type,
    size    |-> Len(file.bytes),
    url     |-> url,
    content |-> IF StoredAsText(file) THEN Utf8Decode(file.bytes) ELSE fileToBase64(file),
    summary |-> Undefined,
    isSummarizing |-> Undefined ]

\* Restore effect: the branch that wraps the content as text
RestoredAsText(rec) ==
  /\ rec.content # <<>>
  /\ ~Includes(Chars(rec.type), Chars("pdf"))
  /\ ~EndsWith(rec.name, Chars(".pptx"))

\* Restore effect: the argument of atob, content.split(',')[1] || content
AtobArgument(content) ==
  LET part == SplitComma1(content) IN
  IF part.defined /\ part.str # <<>> THEN part.str ELSE content

\* Restore effect: the bytes of the Blob made for one parsed record;
\* [ok |-> FALSE] when atob throws, [blob |-> FALSE] when none is made
RestoreBlob(rec) ==
  IF RestoredAsText(rec)
    THEN [ok |-> TRUE, blob |-> TRUE, bytes |-> Utf8Encode(rec.content)]
  ELSE IF rec.content # <<>>
    THEN LET d == atob(AtobArgument(rec.content)) IN
         [ok |-> d.ok, blob |-> d.ok, bytes |-> d.bytes]
  ELSE [ok |-> TRUE, blob |-> FALSE, bytes |-> <<>>]

(* --------------------------- session store ---------------------------- *)

\* Save effect: files.map(({ url, ...rest }) => rest)
StripUrl(rec) ==
  [ id |-> rec.id, name |-> rec.name, type |-> rec.type, size |-> rec.size,
    content |-> rec.content, summary |-> rec.summary,
    isSummarizing |-> rec.isSummarizing ]

filesToSave(fs) == [i \in 1..Len(fs) |-> StripUrl(fs[i])]

\* Decimal digits of a size
Digits(n) == IF n < 10 THEN 1 ELSE IF n < 100 THEN 2 ELSE 3

\* Length of JSON.stringify of one saved record (the sample strings need no
\* escaping); unset fields are left out
RecordJsonLength(r) ==
  6 + 2 + Len(Chars(r.id))
  + 8 + 2 + Len(r.name)
  + 8 + 2 + Len(Chars(r.type))
  + 8 + Digits(r.size)
  + 11 + 2 + Len(r.content)
  + (IF r.summary = Undefined THEN 0 ELSE 11 + 2 + Len(Chars(r.summary)))
  + (IF r.isSummarizing = Undefined THEN 0
     ELSE IF r.isSummarizing = "true" THEN 17 + 4 ELSE 17 + 5)
  + 1

RECURSIVE SumJsonLength(_)
SumJsonLength(recs) ==
  IF recs = <<>> THEN 0 ELSE RecordJsonLength(recs[1]) + SumJsonLength(Tail(recs))

\* Length of JSON.stringify(filesToSave)
JsonLength(recs) ==
  2 + SumJsonLength(recs) + (IF Len(recs) > 1 THEN Len(recs) - 1 ELSE 0)

NoEntry == [kind |-> "none", recs |-> <<>>]
CorruptEntry == [kind |-> "corrupt", recs |-> <<>>]
JsonEntry(recs) == [kind |-> "json", recs |-> recs]

\* localStorage.setItem: replaces the entry, or throws QuotaExceededError
\* and leaves the entry as it was
setItem(entry, recs) ==
  IF Len(Chars(STORAGE_KEY)) + JsonLength(recs) > Quota
    THEN [threw |-> TRUE, entry |-> entry]
    ELSE [threw |-> FALSE, entry |-> JsonEntry(recs)]

\* Mutant of SaveEffect: the catch block clears the entry it could not replace
SaveEffectClearsOnFailure(fs, restoring, entry) ==
  IF restoring THEN [entry |-> entry, log |-> {}, wrote |-> FALSE]
  ELSE LET w == setItem(entry, filesToSave(fs)) IN
       IF w.threw
         THEN [entry |-> NoEntry, log |-> {"warn: Storage limit reached"}, wrote |-> FALSE]
         ELSE [entry |-> w.entry, log |-> {}, wrote |-> TRUE]

\* The save effect, run after a commit that changed files or isRestoring
SaveEffect(fs, restoring, entry) ==
  IF restoring THEN [entry |-> entry, log |-> {}, wrote |-> FALSE]
  ELSE LET w == setItem(entry, filesToSave(fs)) IN
       IF w.threw
         THEN [entry |-> w.entry, log |-> {"warn: Storage limit reached"}, wrote |-> FALSE]
         ELSE [entry |-> w.entry, log |-> {}, wrote |-> TRUE]

\* A parsed record as the restore effect's map sees it: no url
Parsed(r) ==
  [ id |-> r.id, name |-> r.name, type |-> r.type, size |-> r.size, url |-> NoUrl,
    content |-> r.content, summary |-> r.summary, isSummarizing |-> r.isSummarizing ]

\* parsedFiles.map(...): records are rebuilt in order, each Blob taking the
\* next object URL; the first atob that throws ends the map
RECURSIVE RestoreMap(_, _, _, _)
RestoreMap(recs, url, done, made) ==
  IF recs = <<>> THEN [threw |-> FALSE, files |-> done, blobs |-> made, next |-> url]
  ELSE LET b == RestoreBlob(recs[1]) IN
       IF ~b.ok THEN [threw |-> TRUE, files |-> done, blobs |-> made, next |-> url]
       ELSE IF b.blob
         THEN RestoreMap(Tail(recs), url + 1,
                         Append(done, [Parsed(recs[1]) EXCEPT !.url = url]),
                         made \cup {[url |-> url, bytes |-> b.bytes]})
       ELSE RestoreMap(Tail(recs), url, Append(done, Parsed(recs[1])), made)

\* The restore effect (mount): what setFiles is called with, if it is
RestoreEffect(entry, url) ==
  IF entry.kind = "none"
    THEN [set |-> FALSE, files |-> <<>>, blobs |-> {}, next |-> url, log |-> {}]
  ELSE IF entry.kind = "corrupt"
    THEN [set |-> FALSE, files |-> <<>>, blobs |-> {}, next |-> url,
          log |-> {"error: Failed to restore session"}]
  ELSE LET m == RestoreMap(entry.recs, url, <<>>, {}) IN
       IF m.threw
         THEN [set |-> FALSE, files |-> <<>>, blobs |-> m.blobs, next |-> m.next,
               log |-> {"error: Failed to restore session"}]
         ELSE [set |-> TRUE, files |-> m.files, blobs |-> m.blobs, next |-> m.next,
               log |-> {}]

(* ------------------------- summarization service ---------------------- *)

\* summarizeDocument: response.text || fallback, or the fallback of the catch
summarizeDocument(outcome) ==
  IF outcome = "text" THEN "Short summary."
  ELSE IF outcome = "empty" THEN "Nao foi possivel gerar um resumo."
  ELSE "Erro ao processar o resumo com a IA."

\* Mutant of GerarIAVisible: the button stays while the summary is pending
GerarIAVisibleWhilePending(file) ==
  file.summary = Undefined

\* PreviewCard: the condition under which the "Gerar IA" button is rendered
GerarIAVisible(file) ==
  /\ file.summary = Undefined
  /\ file.isSummarizing \in {Undefined, "false"}

\* The lifecycle state a record is in as far as the program can tell: the
\* card reads isSummarizing (spinner) and summary (text shown, button hidden)
\* and PreviewFile has no other field for it. A summary that is a fallback
\* message is stored and shown like any other summary.
SummarizationState(file) ==
  IF file.isSummarizing = "true" THEN "InFlight"
  ELSE IF file.summary # Undefined THEN "Done"
  ELSE "Idle"

\* The remote outcomes summarizeDocument answers with a fallback message
FailureOutcomes == {"empty", "throws"}

(* --------------------------- render dispatch -------------------------- *)

\* PreviewCard: useState<'preview' | 'summary'>; the toggle button of a card
\* switches between the two at any time, so a card can be in either
ViewModes == {"preview", "summary"}

\* The bodies renderContent can return
Strategies == {"summary", "pdf", "markdown", "text", "presentation", "unsupported"}

IsPdf(file) == Includes(Chars(file.type), Chars("pdf"))

IsMarkdown(file) ==
  EndsWith(file.name, Chars(".md")) \/ Includes(Chars(file.type), Chars("markdown"))

IsTextFamily(file) ==
  Includes(Chars(file.type), Chars("xml")) \/ Includes(Chars(file.type), Chars("text"))

IsPresentation(file) == EndsWith(file.name, Chars(".pptx"))

\* Mutant of renderContent: the presentation test comes before the text test
renderContentPresentationFirst(file, viewMode) ==
  IF viewMode = "summary" THEN "summary"
  ELSE IF IsPdf(file) THEN "pdf"
  ELSE IF IsMarkdown(file) THEN "markdown"
  ELSE IF IsPresentation(file) THEN "presentation"
  ELSE IF IsTextFamily(file) THEN "text"
  ELSE "unsupported"

\* PreviewCard.renderContent: the body shown for a record in a view mode
renderContent(file, viewMode) ==
  IF viewMode = "summary" THEN "summary"
  ELSE IF IsPdf(file) THEN "pdf"
  ELSE IF IsMarkdown(file) THEN "markdown"
  ELSE IF IsTextFamily(file) THEN "text"
  ELSE IF IsPresentation(file) THEN "presentation"
  ELSE "unsupported"

(* ------------------------------ the page ------------------------------ *)

Init ==
  /\ phase = "boot"
  /\ files = <<>>
  /\ isRestoring = TRUE
  /\ storage \in {NoEntry, CorruptEntry}
  /\ blobs = {}
  /\ nextUrl = 1
  /\ batches = {}
  /\ calls = <<>>
  /\ ops = 0
  /\ console = {}
  /\ last = [op |-> "load", arg |-> 0]

\* First render and its effects: the restore effect, the save effect with
\* the first render's isRestoring (true), then the re-render that
\* setFiles/setIsRestoring(false) cause and its save effect.
Mount ==
  /\ phase = "boot"
  /\ LET r  == RestoreEffect(storage, nextUrl)
         s1 == SaveEffect(files, isRestoring, storage)
         fs == IF r.set THEN r.files ELSE files
         s2 == SaveEffect(fs, FALSE, s1.entry)
     IN  /\ files' = fs
         /\ storage' = s2.entry
         /\ blobs' = blobs \cup r.blobs
         /\ nextUrl' = r.next
         /\ console' = r.log \cup s1.log \cup s2.log
  /\ isRestoring' = FALSE
  /\ phase' = "running"
  /\ last' = [op |-> "mount", arg |-> 0]
  /\ UNCHANGED << batches, calls, ops >>

\* Mutant of HandleFilesStart: the first record of the batch is put in the
\* list before the reads of the batch have ended
HandleFilesStartPublishesEarly(inputs, k) ==
  /\ phase = "running"
  /\ ops + k <= MaxOps
  /\ \E fl \in [1..k -> inputs], ids \in [1..k -> IDS] :
       /\ nextUrl = 1 => ids[1] = FirstId
       /\ batches' = batches \cup
            { [i \in 1..k |-> ProcessFile(fl[i], ids[i], nextUrl + i - 1)] }
       /\ blobs' = blobs \cup
            { [url |-> nextUrl + i - 1, bytes |-> fl[i].bytes] : i \in 1..k }
       /\ files' = Append(files, ProcessFile(fl[1], ids[1], nextUrl))
  /\ nextUrl' = nextUrl + k
  /\ ops' = ops + k
  /\ console' = {}
  /\ last' = [op |-> "handleFiles", arg |-> k]
  /\ UNCHANGED << phase, isRestoring, storage, calls >>

\* handleFiles up to the await, for k files of `inputs`: each file gets the
\* id Math.random gives it and the object URL createObjectURL gives it, and
\* its read starts
HandleFilesStart(inputs, k) ==
  /\ phase = "running"
  /\ ops + k <= MaxOps
  /\ \E fl \in [1..k -> inputs], ids \in [1..k -> IDS] :
       /\ nextUrl = 1 => ids[1] = FirstId
       /\ batches' = batches \cup
            { [i \in 1..k |-> ProcessFile(fl[i], ids[i], nextUrl + i - 1)] }
       /\ blobs' = blobs \cup
            { [url |-> nextUrl + i - 1, bytes |-> fl[i].bytes] : i \in 1..k }
  /\ nextUrl' = nextUrl + k
  /\ ops' = ops + k
  /\ console' = {}
  /\ last' = [op |-> "handleFiles", arg |-> k]
  /\ UNCHANGED << phase, files, isRestoring, storage, calls >>

\* Mutant of HandleFilesResolve: the batch is put before the records
HandleFilesResolvePrepends(b) ==
  /\ phase = "running"
  /\ b \in batches
  /\ batches' = batches \ {b}
  /\ files' = b \o files
  /\ LET s == SaveEffect(files', isRestoring, storage) IN
       /\ storage' = s.entry
       /\ console' = s.log
  /\ last' = [op |-> "append", arg |-> Len(b)]
  /\ UNCHANGED << phase, isRestoring, blobs, nextUrl, calls, ops >>

\* handleFiles after the await: every read resolved, the batch is appended
\* and the save effect runs
HandleFilesResolve(b) ==
  /\ phase = "running"
  /\ b \in batches
  /\ batches' = batches \ {b}
  /\ files' = files \o b
  /\ LET s == SaveEffect(files', isRestoring, storage) IN
       /\ storage' = s.entry
       /\ console' = s.log
  /\ last' = [op |-> "append", arg |-> Len(b)]
  /\ UNCHANGED << phase, isRestoring, blobs, nextUrl, calls, ops >>

\* handleFiles when the read of file i rejects: Promise.all rejects, the
\* async function ends in an unhandled rejection and setFiles is not called
HandleFilesReject(b, i) ==
  /\ phase = "running"
  /\ b \in batches
  /\ i \in 1..Len(b)
  /\ batches' = batches \ {b}
  /\ console' = {"unhandledrejection"}
  /\ last' = [op |-> "readFailed", arg |-> Len(b)]
  /\ UNCHANGED << phase, files, isRestoring, storage, blobs, nextUrl, calls, ops >>

\* prev.map(f => f.id === id ? { ...f, <fields> } : f)
MapById(fs, id, summary, summarizing) ==
  [i \in 1..Len(fs) |->
     IF fs[i].id = id
       THEN [fs[i] EXCEPT !.summary = IF summary = Undefined THEN @ ELSE summary,
                          !.isSummarizing = summarizing]
       ELSE fs[i]]

\* Mutant of HandleSummarize: the start of a summarization is not saved
HandleSummarizeSkipsSave(i) ==
  /\ phase = "running"
  /\ i \in 1..Len(files)
  /\ GerarIAVisible(files[i])
  /\ ops < MaxOps
  /\ ops' = ops + 1
  /\ files' = MapById(files, files[i].id, Undefined, "true")
  /\ calls' = Append(calls, [id |-> files[i].id, url |-> files[i].url])
  /\ console' = {}
  /\ last' = [op |-> "summarize", arg |-> i]
  /\ UNCHANGED << phase, isRestoring, storage, blobs, nextUrl, batches >>

\* Click on "Gerar IA" of card i: handleSummarize up to the await
HandleSummarize(i) ==
  /\ phase = "running"
  /\ i \in 1..Len(files)
  /\ GerarIAVisible(files[i])
  /\ ops < MaxOps
  /\ ops' = ops + 1
  /\ files' = MapById(files, files[i].id, Undefined, "true")
  /\ calls' = Append(calls, [id |-> files[i].id, url |-> files[i].url])
  /\ LET s == SaveEffect(files', isRestoring, storage) IN
       /\ storage' = s.entry
       /\ console' = s.log
  /\ last' = [op |-> "summarize", arg |-> i]
  /\ UNCHANGED << phase, isRestoring, blobs, nextUrl, batches >>

\* The remote call k comes back: handleSummarize after the await
SummarizeResolve(k, outcome) ==
  /\ phase = "running"
  /\ k \in 1..Len(calls)
  /\ files' = MapById(files, calls[k].id, summarizeDocument(outcome), "false")
  /\ calls' = [j \in 1..(Len(calls) - 1) |-> IF j < k THEN calls[j] ELSE calls[j + 1]]
  /\ LET s == SaveEffect(files', isRestoring, storage) IN
       /\ storage' = s.entry
       /\ console' = s.log \cup
            (IF outcome = "throws" THEN {"error: Error summarizing document"} ELSE {})
  /\ last' = [op |-> "resolve", arg |-> k]
  /\ UNCHANGED << phase, isRestoring, blobs, nextUrl, batches, ops >>

\* prev.find(f => f.id === id): index of the first match, 0 when none
RECURSIVE FindById(_, _, _)
FindById(fs, id, i) ==
  IF i > Len(fs) THEN 0 ELSE IF fs[i].id = id THEN i ELSE FindById(fs, id, i + 1)

\* prev.filter(f => f.id !== id)
FilterOutId(fs, id) == SelectSeq(fs, LAMBDA f : f.id # id)

\* removeFile(id)
RemoveFile(id) ==
  /\ phase = "running"
  /\ LET found == FindById(files, id, 1) IN
       blobs' = IF found = 0 THEN blobs
                ELSE { h \in blobs : h.url # files[found].url }
  /\ files' = FilterOutId(files, id)
  /\ LET s == SaveEffect(files', isRestoring, storage) IN
       /\ storage' = s.entry
       /\ console' = s.log
  /\ last' = [op |-> "remove", arg |-> FindById(files, id, 1)]
  /\ UNCHANGED << phase, isRestoring, nextUrl, batches, calls, ops >>

\* Page reload: React state, pending promises and every object URL of the
\* page are gone; localStorage stays
Reload ==
  /\ phase = "running"
  /\ ops < MaxOps
  /\ phase' = "boot"
  /\ files' = <<>>
  /\ isRestoring' = TRUE
  /\ blobs' = {}
  /\ batches' = {}
  /\ calls' = <<>>
  /\ ops' = ops + 1
  /\ console' = {}
  /\ last' = [op |-> "load", arg |-> 0]
  /\ UNCHANGED << storage, nextUrl >>

Next ==
  \/ Mount
  \/ \E k \in 1..MaxBatch : HandleFilesStart(FileInputs, k)
  \/ \E b \in batches : HandleFilesResolve(b)
  \/ \E b \in batches : \E i \in 1..Len(b) : HandleFilesReject(b, i)
  \/ \E i \in 1..Len(files) : HandleSummarize(i)
  \/ \E k \in 1..Len(calls) : \E o \in RemoteOutcomes : SummarizeResolve(k, o)
  \/ \E id \in IDS : RemoveFile(id)
  \/ Reload

Spec == Init /\ [][Next]_vars

\* The codec alone: one file of CodecInputs is ingested as the first thing a
\* run does, the page is reloaded and the session restored.
CodecIngest ==
  /\ ops = 0
  /\ HandleFilesStart(CodecInputs, 1)

NextCodec ==
  \/ Mount
  \/ CodecIngest
  \/ \E b \in batches : HandleFilesResolve(b)
  \/ Reload

SpecCodec == Init /\ [][NextCodec]_vars

(* ============================ the claims ============================== *)

\* The save effect ran in the step that led here
SaveAttempted == last.op \in {"mount", "append", "summarize", "resolve", "remove"}

\* localStorage usage the save of fs asks for
UsageOf(fs) == Len(Chars(STORAGE_KEY)) + JsonLength(filesToSave(fs))

\* C1: a save whose serialized size exceeds the quota leaves the persisted
\* entry exactly as it was (a load reads nothing but that entry, so it returns
\* what it returned before); the failure is logged as a warning and nothing
\* is thrown out of the effect.
QuotaFailureKeepsSession ==
  [][ (SaveAttempted' /\ UsageOf(files') > Quota) =>
        /\ storage' = storage
        /\ "warn: Storage limit reached" \in console'
        /\ "unhandledrejection" \notin console'
        /\ phase' = "running" ]_vars

\* Witness of C1: a save has just failed and the session saved before it, a
\* list of records other than the current one, is still the persisted entry.
QuotaFailureSeen ==
  /\ "warn: Storage limit reached" \in console
  /\ storage.kind = "json"
  /\ storage.recs # <<>>
  /\ storage.recs # filesToSave(files)

\* C2 (as claimed): from page load until the first user operation nothing is
\* written to the persisted entry.
RestoreDoesNotSave == [][ phase = "boot" => storage' = storage ]_vars

\* The pending remote calls made for the document shown by card i
CallsFor(i) ==
  { k \in 1..Len(calls) : calls[k].id = files[i].id /\ calls[k].url = files[i].url }

\* C3: no document has two summarizations in flight, and a document that is
\* in flight offers no way to ask again.
OneInFlightPerDocument ==
  \A i \in 1..Len(files) :
    /\ Cardinality(CallsFor(i)) <= 1
    /\ CallsFor(i) # {} => ~GerarIAVisible(files[i])

\* Witness of C3: a document is in flight, with its one remote call pending.
DocumentInFlight ==
  \E i \in 1..Len(files) :
    /\ files[i].isSummarizing = "true"
    /\ Cardinality(CallsFor(i)) = 1

\* C4 (as claimed): when the document a remote call was made for has been
\* removed, the resolution of that call leaves the Registry as it is.
StaleResolveIsNoOp ==
  [][ \A k \in 1..Len(calls) : \A o \in RemoteOutcomes :
        ( /\ SummarizeResolve(k, o)
          /\ \A i \in 1..Len(files) : files[i].url # calls[k].url )
        => files' = files ]_vars

\* C5: the step that publishes a batch of N files appends exactly its N
\* records, in input order (the order their object URLs were made in), after
\* the records that were there, which stay as they were.
BatchAppendsInOrder ==
  [][ last'.op = "append" =>
        LET n == Len(files' ) - Len(files) IN
        /\ n = last'.arg
        /\ n >= 1
        /\ SubSeq(files', 1, Len(files)) = files
        /\ \E b \in batches :
             /\ b \notin batches'
             /\ Len(b) = n
             /\ SubSeq(files', Len(files) + 1, Len(files')) = b
        /\ \A j \in 1..(n - 1) :
             files'[Len(files) + j + 1].url = files'[Len(files) + j].url + 1 ]_vars

\* Witness of C5: a batch of two files has just been appended after a record
\* that was there before.
BatchOfTwoAppended ==
  /\ last.op = "append"
  /\ last.arg = 2
  /\ Len(files) = 3

\* No two records of the list recs have the same id
DistinctIds(recs) ==
  \A i, j \in 1..Len(recs) : i # j => recs[i].id # recs[j].id

\* C6 (as claimed): no two records of the Registry have the same id.
UniqueIds == DistinctIds(files)

\* C7 (as claimed), for a Registry whose ids are distinct: removeFile(id)
\* takes out the matching document and leaves every other record as it was,
\* and the session persisted after it holds no record of that id.
RemoveLeavesOthers ==
  [][ \A id \in IDS :
        (RemoveFile(id) /\ FindById(files, id, 1) # 0 /\ DistinctIds(files)) =>
          LET found == FindById(files, id, 1) IN
          /\ files' = [i \in 1..(Len(files) - 1) |->
                         IF i < found THEN files[i] ELSE files[i + 1]]
          /\ \A i \in 1..Len(storage'.recs) : storage'.recs[i].id # id ]_vars

\* What C8 asks of a restored record f and the live blobs bl: its object URL
\* leads to the bytes of the file it was ingested from (binary encoding), or
\* to the UTF-8 bytes of that file's text (stored as text).
RoundTripOk(f, bl) ==
  LET orig == OriginalOf(f.name) IN
  \E h \in bl :
    /\ h.url = f.url
    /\ h.bytes = IF StoredAsText(orig) THEN Utf8Encode(Utf8Decode(orig.bytes))
                 ELSE orig.bytes

\* C8 (as claimed): every object URL the restore recreates from the persisted
\* record of a non-empty file leads to the original content of the file.
CodecRoundTrip ==
  [][ (phase = "boot" /\ phase' = "running") =>
        \A j \in 1..Len(files') :
          (files'[j].url # NoUrl /\ files'[j].size > 0) =>
            RoundTripOk(files'[j], blobs') ]_vars

\* C9 (as claimed), for a session whose ids are distinct: the restore brings
\* back every persisted record whose own payload decodes, whatever the other
\* records are.
RestoreKeepsGoodRecords ==
  [][ (phase = "boot" /\ phase' = "running" /\ DistinctIds(storage.recs)) =>
        \A i \in 1..Len(storage.recs) :
          RestoreBlob(storage.recs[i]).ok =>
            \E j \in 1..Len(files') : StripUrl(files'[j]) = storage.recs[i] ]_vars

\* C10 (as claimed), for a batch whose ids are distinct: when the read of one
\* file of a batch fails, the other files of the batch are appended all the
\* same.
ReadFailureKeepsOthers ==
  [][ \A b \in batches : \A i \in 1..Len(b) :
        (HandleFilesReject(b, i) /\ DistinctIds(files \o b)) =>
          \A j \in (1..Len(b)) \ {i} : \E n \in 1..Len(files') : files'[n] = b[j] ]_vars

\* C11 (as claimed): every record of a file named .pptx that is on display,
\* freshly ingested or restored, is shown in preview mode as the presentation
\* placeholder.
PresentationShowsPlaceholder ==
  \A i \in 1..Len(files) :
    IsPresentation(files[i]) => renderContent(files[i], "preview") = "presentation"

\* C12: every record on display has, in each view mode, exactly one body of
\* the fixed set; summary mode gives the summary body whatever the file, and
\* preview mode gives the body of the first rule that matches in the order
\* PDF, Markdown, text block, presentation, with the unsupported placeholder
\* when no rule matches.
RenderDispatchTotalAndOrdered ==
  \A i \in 1..Len(files) :
    LET f == files[i]
        s == renderContent(f, "preview")
    IN  /\ \A m \in ViewModes : renderContent(f, m) \in Strategies
        /\ renderContent(f, "summary") = "summary"
        /\ s # "summary"
        /\ IsPdf(f) => s = "pdf"
        /\ (~IsPdf(f) /\ IsMarkdown(f)) => s = "markdown"
        /\ (~IsPdf(f) /\ ~IsMarkdown(f) /\ IsTextFamily(f)) => s = "text"
        /\ (~IsPdf(f) /\ ~IsMarkdown(f) /\ ~IsTextFamily(f) /\ IsPresentation(f))
             => s = "presentation"
        /\ (~IsPdf(f) /\ ~IsMarkdown(f) /\ ~IsTextFamily(f) /\ ~IsPresentation(f))
             => s = "unsupported"

\* Witness of C12: a record on display matches two rules at once, the text
\* block and the presentation, and the order decides.
RecordMatchingTwoRules ==
  \E i \in 1..Len(files) :
    /\ ~IsPdf(files[i]) /\ ~IsMarkdown(files[i])
    /\ IsTextFamily(files[i]) /\ IsPresentation(files[i])
    /\ renderContent(files[i], "preview") = "text"

\* C13 (as claimed): when the remote call throws or returns nothing, every
\* record the resolution is for ends in a state that is not Done, holding the
\* fallback message as its summary, and nothing is thrown out of the handler.
FailureEndsInFailed ==
  [][ \A k \in 1..Len(calls) : \A o \in FailureOutcomes :
        SummarizeResolve(k, o) =>
          /\ "unhandledrejection" \notin console'
          /\ \A i \in 1..Len(files) :
               files[i].id = calls[k].id =>
                 /\ files'[i].summary = summarizeDocument(o)
                 /\ SummarizationState(files'[i]) # "Done" ]_vars

\* C14 (as claimed): a record whose summarization has ended, successfully or
\* with a fallback message, offers the summarize request again.
ResummarizeAvailable ==
  \A i \in 1..Len(files) :
    SummarizationState(files[i]) = "Done" => GerarIAVisible(files[i])

\* C15 (as claimed): a record whose summarization has just failed does not
\* satisfy the condition of Done, that is, it has no summary present.
FailedRecordHasNoSummary ==
  [][ \A k \in 1..Len(calls) : \A o \in FailureOutcomes :
        SummarizeResolve(k, o) =>
          \A i \in 1..Len(files) :
            files[i].id = calls[k].id => files'[i].summary = Undefined ]_vars

\* C16: while the files of a batch are being read no record of the batch is
\* in the list, and the step that ends the reads puts the whole batch, in
\* input order and in one piece, after the records that were there, also
\* when other batches are still being read.
BatchPublishedAtOnce ==
  /\ [](\A b \in batches : \A j \in 1..Len(b) : \A i \in 1..Len(files) :
          files[i].url # b[j].url)
  /\ [][ \A b \in batches :
           (b \notin batches' /\ last'.op = "append") => files' = files \o b ]_vars

\* Witness of C16: a batch of two has just been published while another
\* batch is still being read.
BatchPublishedWhileOtherPending ==
  /\ last.op = "append"
  /\ last.arg = 2
  /\ batches # {}
  /\ Len(files) >= 2

\* C17 (as claimed): the resolution of the remote call made for one document
\* changes the summary and state of that document's record and nothing else:
\* every record of another document, ingested or updated in the meantime
\* included, is after the step what it was before it, and none is discarded.
ResolveTouchesOnlyItsDocument ==
  [][ \A k \in 1..Len(calls) : \A o \in RemoteOutcomes :
        SummarizeResolve(k, o) =>
          /\ Len(files') = Len(files)
          /\ \A i \in 1..Len(files) :
               files[i].url # calls[k].url => files'[i] = files[i] ]_vars

\* C18 (as claimed): once the restore phase has ended, every record of the
\* list has an object URL made by this page load and not revoked; no
\* restored record is shown with the URL of an earlier load or with none.
EveryRecordHasLiveHandle ==
  (phase = "running" /\ ~isRestoring) =>
    \A i \in 1..Len(files) : \E h \in blobs : h.url = files[i].url

\* C19 (as claimed): removeFile(id) revokes the object URL of every record
\* it takes out of the list, revokes no URL of a record that stays, and for
\* an id no record has it revokes nothing and leaves the list as it is.
RemoveReleasesWhatItRemoves ==
  [][ \A id \in IDS :
        RemoveFile(id) =>
          /\ \A i \in 1..Len(files) :
               IF files[i].id = id
                 THEN \A h \in blobs' : h.url # files[i].url
                 ELSE \A h \in blobs : h.url = files[i].url => h \in blobs'
          /\ FindById(files, id, 1) = 0 => (files' = files /\ blobs' = blobs) ]_vars

\* C20: every step that changes the list while the page runs (append,
\* removal, start of a summarization, arrival of a summary) ends with a save
\* attempt of the new list: the persisted entry becomes the new records
\* without their url, in order, or the attempt fails with the warning and
\* the entry stays. Steps that do not change the list do not touch the entry,
\* so after a save attempt that succeeded the entry is the list without urls.
MutationIsFollowedBySave ==
  /\ [][ (phase' = "running" /\ files' # files) =>
           \/ storage' = JsonEntry(filesToSave(files'))
           \/ /\ "warn: Storage limit reached" \in console'
              /\ storage' = storage ]_vars
  /\ [][ last'.op \in {"handleFiles", "readFailed"} =>
           (files' = files /\ storage' = storage) ]_vars
  /\ []( (phase = "running" /\ SaveAttempted
            /\ "warn: Storage limit reached" \notin console) =>
           storage = JsonEntry(filesToSave(files)) )

\* Witness of C20: a summarization has just started and the entry holds the
\* list with the record marked as summarizing.
SummarizeStartSaved ==
  /\ last.op = "summarize"
  /\ "warn: Storage limit reached" \notin console
  /\ \E i \in 1..Len(files) : files[i].isSummarizing = "true"
  /\ storage = JsonEntry(filesToSave(files))

\* C21 (as claimed): every record on display that is marked as summarizing,
\* a record restored after a reload included, has a remote call pending in
\* this page load whose resolution will end its summarizing.
InFlightHasPendingCall ==
  phase = "running" =>
    \A i \in 1..Len(files) :
      files[i].isSummarizing = "true" =>
        \E k \in 1..Len(calls) : calls[k].id = files[i].id

\* C22 (as claimed): a page load whose restore fails, on an entry that does
\* not parse or on a record whose payload does not decode, leaves the
\* persisted entry as it was when the page was loaded.
FailedRestoreKeepsEntry ==
  [][ (phase = "boot" /\ phase' = "running"
         /\ "error: Failed to restore session" \in console') =>
        storage' = storage ]_vars

====
